---- MODULE Spec2Model ----
(***************************************************************************)
(* Model of textures/split.py: split_json_file loads a JSON object, writes *)
(* one sampled entry to doc.json, writes the entries in chunks of          *)
(* objects_per_file to geometry_{i}.json and writes geometry_index.json.   *)
(*                                                                         *)
(* A Python dict / JSON object is a sequence of <<key, value>> pairs with  *)
(* distinct keys, in insertion order.  The text of the input file is a     *)
(* sequence of members that may repeat a key.  The output directory is     *)
(* the function disk from file names to file contents; it starts empty and *)
(* is kept between runs on the same input and chunk size.                  *)
(***************************************************************************)
EXTENDS Integers, Sequences, FiniteSets, TLC

\* ---- bounds of the model ------------------------------------------------
MaxLen == 3        \* members in the text of the input file
MaxChunk == 3      \* largest objects_per_file tried
MaxNegChunk == 2   \* objects_per_file is tried down to -MaxNegChunk
MaxRuns == 2       \* invocations on the same output directory

KeyOrder == <<"a", "b", "c", "d">>
Keys == {KeyOrder[i] : i \in 1..Len(KeyOrder)}
Vals == {"v", "w"}
ChunkSizes == (0 - MaxNegChunk)..MaxChunk

VARIABLES input_file, objects_per_file, pc, err, failed, data, total_objects,
          num_files, example_data, keys, file_num, index, disk, log, run, prev

vars == <<input_file, objects_per_file, pc, err, failed, data, total_objects,
          num_files, example_data, keys, file_num, index, disk, log, run, prev>>

\* ---- file names and file contents ---------------------------------------
doc_file == <<"doc", 0>>
index_file == <<"index", 0>>
output_file(i) == <<"shard", i>>
NoFile == <<"none", 0>>
FileNames == {doc_file, index_file} \cup {output_file(i) : i \in 0..MaxLen}

Absent == [st |-> "absent", fmt |-> "none", pairs |-> <<>>]

\* ---- Python dict and list operations -------------------------------------
RECURSIVE DictHas(_, _)
DictHas(d, k) ==
    IF d = <<>> THEN FALSE
    ELSE IF Head(d)[1] = k THEN TRUE ELSE DictHas(Tail(d), k)

RECURSIVE DictGet(_, _)
DictGet(d, k) ==
    IF Head(d)[1] = k THEN Head(d)[2] ELSE DictGet(Tail(d), k)

\* d[k] = v: an existing key keeps its position, a new key is appended
DictSet(d, k, v) ==
    IF DictHas(d, k)
    THEN [i \in 1..Len(d) |-> IF d[i][1] = k THEN <<k, v>> ELSE d[i]]
    ELSE Append(d, <<k, v>>)

DictKeys(d) == [i \in 1..Len(d) |-> d[i][1]]

\* json.load of an object: members are stored one by one into a dict
RECURSIVE json_load_into(_, _)
json_load_into(d, text) ==
    IF text = <<>> THEN d
    ELSE json_load_into(DictSet(d, Head(text)[1], Head(text)[2]), Tail(text))

json_load(text) == json_load_into(<<>>, text)

\* json.dump of a dict: the members in dict order, in the given layout
json_dump(d, layout) == [st |-> "ok", fmt |-> layout, pairs |-> d]

Min(a, b) == IF a < b THEN a ELSE b
Max(a, b) == IF a > b THEN a ELSE b

\* Python's s[a:b]: negative bounds count from the end, then both are clamped
SliceBound(n, i) == IF i < 0 THEN Max(n + i, 0) ELSE Min(i, n)
PySlice(s, a, b) ==
    LET lo == SliceBound(Len(s), a)
        hi == SliceBound(Len(s), b)
    IN  IF hi <= lo THEN <<>> ELSE [i \in 1..(hi - lo) |-> s[lo + i]]

\* faulty variants of ceil_div: rounding down, and rounding down plus one
floor_div(t, c) ==
    IF c > 0 THEN t \div c ELSE 0 - (t \div (0 - c))
floor_div_plus_one(t, c) ==
    IF c > 0 THEN (t \div c) + 1 ELSE 0 - (t \div (0 - c))

\* math.ceil(t / c) for c # 0
ceil_div(t, c) ==
    IF c > 0
    THEN (IF t % c = 0 THEN t \div c ELSE (t \div c) + 1)
    ELSE 0 - (t \div (0 - c))

\* ---- the chunk of one loop iteration -------------------------------------
\* faulty variant of start_idx: chunks start one position late
start_idx_plus_one(fn) == fn * objects_per_file + 1
start_idx(fn) == fn * objects_per_file
\* faulty variant of end_idx: the last position is left out
end_idx_short(fn) == Min(fn * objects_per_file + objects_per_file, total_objects - 1)
end_idx(fn) == Min(start_idx(fn) + objects_per_file, total_objects)
chunk_keys(fn) == PySlice(keys, start_idx(fn), end_idx(fn))

RECURSIVE chunk_data_from(_, _)
chunk_data_from(d, ks) ==
    IF ks = <<>> THEN d
    ELSE chunk_data_from(DictSet(d, Head(ks), DictGet(data, Head(ks))), Tail(ks))
chunk_data(fn) == chunk_data_from(<<>>, chunk_keys(fn))

RECURSIVE index_update(_, _, _)
index_update(ix, ks, fn) ==
    IF ks = <<>> THEN ix
    ELSE index_update(DictSet(ix, Head(ks), fn), Tail(ks), fn)

\* faulty variant of example_of: the whole mapping instead of the sampled entry
example_of_whole(example_key) == data

\* line 40: the dict holding the sampled entry alone
example_of(example_key) == <<<<example_key, DictGet(data, example_key)>>>>

\* faulty variant of write_file: the file is opened for appending
write_file_append(path, d, layout) ==
    [disk EXCEPT ![path] = json_dump(disk[path].pairs \o d, layout)]

\* open(path, 'w') followed by json.dump
write_file(path, d, layout) == [disk EXCEPT ![path] = json_dump(d, layout)]

\* a write that raises: the file was not opened, or it was truncated by
\* open and only some leading part of the content reached it
Prefixes(d) == {SubSeq(d, 1, n) : n \in 0..Len(d)}
FailedWrites(path, d, layout) ==
    {disk} \cup {[disk EXCEPT ![path] = [st |-> "partial", fmt |-> layout, pairs |-> p]]
                 : p \in Prefixes(d)}

\* ---- inputs --------------------------------------------------------------
\* The texts tried: up to MaxLen members, a key may repeat with another
\* value.  Keys are opaque to the program, so of the texts that differ only
\* by a renaming of keys the one whose keys first occur in KeyOrder is taken.
Members == Keys \X Vals
KeyRank(k) == CHOOSE i \in 1..Len(KeyOrder) : KeyOrder[i] = k
FirstUseOrdered(text) ==
    \A i \in 1..Len(text) :
        KeyRank(text[i][1]) <= Cardinality({text[j][1] : j \in 1..(i - 1)}) + 1
Texts == {text \in UNION {[1..n -> Members] : n \in 0..MaxLen} : FirstUseOrdered(text)}

Init ==
    /\ input_file \in Texts
    /\ objects_per_file \in ChunkSizes
    /\ pc = "start"
    /\ err = "none"
    /\ failed = NoFile
    /\ data = <<>>
    /\ total_objects = 0
    /\ num_files = 0
    /\ example_data = <<>>
    /\ keys = <<>>
    /\ file_num = 0
    /\ index = <<>>
    /\ disk = [f \in FileNames |-> Absent]
    /\ log = <<>>
    /\ run = 1
    /\ prev = [valid |-> FALSE, disk |-> [f \in FileNames |-> Absent]]

Raise(e, f) ==
    /\ pc' = "error"
    /\ err' = e
    /\ failed' = f

\* lines 26-30: read and parse the input, start an empty index
Load ==
    /\ pc = "start"
    /\ data' = json_load(input_file)
    /\ index' = <<>>
    /\ pc' = "count"
    /\ UNCHANGED <<input_file, objects_per_file, err, failed, total_objects,
                   num_files, example_data, keys, file_num, disk, log, run, prev>>

\* lines 26-27 when the file cannot be opened or parsed
LoadFail ==
    /\ pc = "start"
    /\ Raise("InputReadError", NoFile)
    /\ UNCHANGED <<input_file, objects_per_file, data, total_objects, num_files,
                   example_data, keys, file_num, index, disk, log, run, prev>>

\* lines 33-34: the division raises ZeroDivisionError for objects_per_file = 0
CountFiles ==
    /\ pc = "count"
    /\ total_objects' = Len(data)
    /\ IF objects_per_file = 0
       THEN /\ Raise("ZeroDivisionError", NoFile)
            /\ UNCHANGED num_files
       ELSE /\ num_files' = ceil_div(Len(data), objects_per_file)
            /\ pc' = "sample"
            /\ UNCHANGED <<err, failed>>
    /\ UNCHANGED <<input_file, objects_per_file, data, example_data, keys,
                   file_num, index, disk, log, run, prev>>

\* faulty variant of Sample: an empty input skips the sampling instead of raising
Sample_skip_empty ==
    /\ pc = "sample"
    /\ IF DictKeys(data) = <<>>
       THEN example_data' = <<>>
       ELSE \E i \in 1..Len(DictKeys(data)) :
                example_data' = example_of(DictKeys(data)[i])
    /\ pc' = "doc"
    /\ UNCHANGED <<input_file, objects_per_file, err, failed, data, total_objects,
                   num_files, keys, file_num, index, disk, log, run, prev>>

\* lines 39-40: random.choice raises IndexError on an empty list
Sample ==
    /\ pc = "sample"
    /\ IF DictKeys(data) = <<>>
       THEN /\ Raise("IndexError", NoFile)
            /\ UNCHANGED example_data
       ELSE /\ \E i \in 1..Len(DictKeys(data)) :
                  example_data' = example_of(DictKeys(data)[i])
            /\ pc' = "doc"
            /\ UNCHANGED <<err, failed>>
    /\ UNCHANGED <<input_file, objects_per_file, data, total_objects, num_files,
                   keys, file_num, index, disk, log, run, prev>>

\* lines 43-50: write doc.json with indent=2, then list the keys
WriteDoc ==
    /\ pc = "doc"
    /\ disk' = write_file(doc_file, example_data, "indent")
    /\ log' = Append(log, doc_file)
    /\ keys' = DictKeys(data)
    /\ file_num' = 0
    /\ pc' = "loop"
    /\ UNCHANGED <<input_file, objects_per_file, err, failed, data, total_objects,
                   num_files, example_data, index, run, prev>>

WriteDocFail ==
    /\ pc = "doc"
    /\ disk' \in FailedWrites(doc_file, example_data, "indent")
    /\ Raise("OutputWriteError", doc_file)
    /\ UNCHANGED <<input_file, objects_per_file, data, total_objects, num_files,
                   example_data, keys, file_num, index, log, run, prev>>

\* faulty variant of WriteShard: the index is written inside the loop as well
WriteShard_index_inside ==
    /\ pc = "loop"
    /\ file_num < num_files
    /\ index' = index_update(index, chunk_keys(file_num), file_num)
    /\ disk' = [disk EXCEPT
                  ![output_file(file_num)] = json_dump(chunk_data(file_num), "compact"),
                  ![index_file] = json_dump(index', "compact")]
    /\ log' = log \o <<output_file(file_num), index_file>>
    /\ file_num' = file_num + 1
    /\ UNCHANGED <<input_file, objects_per_file, pc, err, failed, data,
                   total_objects, num_files, example_data, keys, run, prev>>

\* lines 51-71: one iteration of the loop over range(num_files)
WriteShard ==
    /\ pc = "loop"
    /\ file_num < num_files
    /\ index' = index_update(index, chunk_keys(file_num), file_num)
    /\ disk' = write_file(output_file(file_num), chunk_data(file_num), "compact")
    /\ log' = Append(log, output_file(file_num))
    /\ file_num' = file_num + 1
    /\ UNCHANGED <<input_file, objects_per_file, pc, err, failed, data,
                   total_objects, num_files, example_data, keys, run, prev>>

\* faulty variant of WriteShardFail: the shard files are removed on failure
WriteShardFail_rollback ==
    /\ pc = "loop"
    /\ file_num < num_files
    /\ index' = index_update(index, chunk_keys(file_num), file_num)
    /\ disk' = [f \in FileNames |-> IF f[1] = "shard" THEN Absent ELSE disk[f]]
    /\ Raise("OutputWriteError", output_file(file_num))
    /\ UNCHANGED <<input_file, objects_per_file, data, total_objects, num_files,
                   example_data, keys, file_num, log, run, prev>>

\* lines 63-69 when the write of the chunk raises
WriteShardFail ==
    /\ pc = "loop"
    /\ file_num < num_files
    /\ index' = index_update(index, chunk_keys(file_num), file_num)
    /\ disk' \in FailedWrites(output_file(file_num), chunk_data(file_num), "compact")
    /\ Raise("OutputWriteError", output_file(file_num))
    /\ UNCHANGED <<input_file, objects_per_file, data, total_objects, num_files,
                   example_data, keys, file_num, log, run, prev>>

\* lines 74-79: after the loop, write the index and return its path
WriteIndex ==
    /\ pc = "loop"
    /\ ~(file_num < num_files)
    /\ disk' = write_file(index_file, index, "compact")
    /\ log' = Append(log, index_file)
    /\ pc' = "done"
    /\ UNCHANGED <<input_file, objects_per_file, err, failed, data, total_objects,
                   num_files, example_data, keys, file_num, index, run, prev>>

WriteIndexFail ==
    /\ pc = "loop"
    /\ ~(file_num < num_files)
    /\ disk' \in FailedWrites(index_file, index, "compact")
    /\ Raise("OutputWriteError", index_file)
    /\ UNCHANGED <<input_file, objects_per_file, data, total_objects, num_files,
                   example_data, keys, file_num, index, log, run, prev>>

\* lines 81-91: the script is invoked again with the same arguments; the
\* locals of the previous call are gone, the output directory is not
Rerun ==
    /\ pc \in {"done", "error"}
    /\ run < MaxRuns
    /\ run' = run + 1
    /\ prev' = IF pc = "done" THEN [valid |-> TRUE, disk |-> disk] ELSE prev
    /\ pc' = "start"
    /\ err' = "none"
    /\ failed' = NoFile
    /\ data' = <<>>
    /\ total_objects' = 0
    /\ num_files' = 0
    /\ example_data' = <<>>
    /\ keys' = <<>>
    /\ file_num' = 0
    /\ index' = <<>>
    /\ log' = <<>>
    /\ UNCHANGED <<input_file, objects_per_file, disk>>

Next ==
    \/ Load
    \/ LoadFail
    \/ CountFiles
    \/ Sample
    \/ WriteDoc
    \/ WriteDocFail
    \/ WriteShard
    \/ WriteShardFail
    \/ WriteIndex
    \/ WriteIndexFail
    \/ Rerun

Spec == Init /\ [][Next]_vars


\* ---- vocabulary of the properties ----------------------------------------
\* R: the record collection of the input, T: its size
R == json_load(input_file)
T == Len(R)
InputKeys == DictKeys(R)
SeqSet(s) == {s[i] : i \in 1..Len(s)}

ShardIds == 0..MaxLen
ShardsOnDisk == {i \in ShardIds : disk[output_file(i)].st # "absent"}
ShardsWritten == {i \in ShardIds : output_file(i) \in SeqSet(log)}
FileKeys(f) == DictKeys(disk[f].pairs)
\* how many members of file f carry key k
Occurrences(f, k) == Cardinality({j \in 1..Len(disk[f].pairs) : disk[f].pairs[j][1] = k})
\* the least n with n * c >= t, for c > 0
LeastCover(t, c) == CHOOSE n \in 0..t : n * c >= t /\ \A m \in 0..(n - 1) : m * c < t
Completed == pc = "done" /\ objects_per_file > 0

TypeOK ==
    /\ pc \in {"start", "count", "sample", "doc", "loop", "done", "error"}
    /\ run \in 1..MaxRuns
    /\ Len(log) <= MaxLen + 2

\* C1: after a completed run with chunk size > 0 every input key occurs once
\* in exactly one shard file and once in the index, the index value is the
\* number of that shard file, and the shard files hold no other key.
C1_PartitionAndIndex ==
    Completed =>
        /\ \A k \in SeqSet(InputKeys) :
              /\ Cardinality({i \in ShardsOnDisk : Occurrences(output_file(i), k) > 0}) = 1
              /\ \A i \in ShardsOnDisk : Occurrences(output_file(i), k) <= 1
              /\ Occurrences(index_file, k) = 1
              /\ DictGet(disk[index_file].pairs, k) \in ShardsOnDisk
              /\ Occurrences(output_file(DictGet(disk[index_file].pairs, k)), k) = 1
        /\ UNION {SeqSet(FileKeys(output_file(i))) : i \in ShardsOnDisk} = SeqSet(InputKeys)
        /\ SeqSet(FileKeys(index_file)) = SeqSet(InputKeys)
        /\ \A i \in ShardsOnDisk : disk[output_file(i)].st = "ok"
        /\ disk[index_file].st = "ok"

C1_Witness ==
    /\ Completed
    /\ T >= 2
    /\ Cardinality(ShardsOnDisk) >= 2
    /\ Len(input_file) > T

\* C2: a completed run with chunk size > 0 writes exactly ceil(T/C) shard
\* files, each once, numbered 0..N-1, and these are the shard files on disk.
C2_ShardCount ==
    Completed =>
        LET N == LeastCover(T, objects_per_file)
        IN  /\ ShardsWritten = 0..(N - 1)
            /\ ShardsOnDisk = 0..(N - 1)
            /\ Cardinality({j \in 1..Len(log) : log[j][1] = "shard"}) = N

C2_Witness ==
    /\ Completed
    /\ T = 3
    /\ objects_per_file = 2
    /\ ShardsOnDisk = {0, 1}

\* C3: after a completed run with chunk size C > 0, shard i holds the keys at
\* positions [i*C, min((i+1)*C, T)) of the input's key order, in that order.
C3_ShardContents ==
    Completed =>
        \A i \in 0..(LeastCover(T, objects_per_file) - 1) :
            FileKeys(output_file(i))
                = SubSeq(InputKeys, i * objects_per_file + 1,
                         Min((i + 1) * objects_per_file, T))

C3_Witness ==
    /\ Completed
    /\ T = 3
    /\ objects_per_file = 2
    /\ FileKeys(output_file(1)) = <<"c">>

\* C4 as stated: with an empty input and a valid chunk size the run ends with
\* no shard file, an index file holding {} and a failed sampling.
C4_Original ==
    (T = 0 /\ objects_per_file > 0 /\ pc \in {"done", "error"}
       /\ err \notin {"InputReadError", "OutputWriteError"}) =>
        /\ ShardsOnDisk = {}
        /\ disk[index_file] = json_dump(<<>>, "compact")
        /\ err = "IndexError"

\* C4 amended: with an empty input the run never completes and writes no
\* file at all: no shard file, no doc.json and no index file.  It ends at the
\* sampling (IndexError), or at the division when the chunk size is 0.
C4_EmptyInputFails ==
    T = 0 =>
        /\ pc \notin {"doc", "loop", "done"}
        /\ log = <<>>
        /\ \A f \in FileNames : disk[f] = Absent
        /\ (pc = "error" /\ err # "InputReadError") =>
              err = (IF objects_per_file = 0 THEN "ZeroDivisionError" ELSE "IndexError")

C4_Witness ==
    /\ T = 0
    /\ objects_per_file > 0
    /\ pc = "error"
    /\ err = "IndexError"
    /\ disk[index_file] = Absent

\* C5 as stated: with a chunk size <= 0 the run never completes successfully.
C5_NonPositiveNeverCompletes ==
    objects_per_file <= 0 => pc # "done"

\* C6: after a completed run with chunk size C > 0 and N >= 1 shards, every
\* shard but the last holds C entries and the last holds T - C*(N-1) entries,
\* a number in 1..C.
C6_ShardSizes ==
    (Completed /\ ShardsOnDisk # {}) =>
        LET N == Cardinality(ShardsOnDisk)
            last == T - objects_per_file * (N - 1)
        IN  /\ ShardsOnDisk = 0..(N - 1)
            /\ \A i \in 0..(N - 2) : Len(disk[output_file(i)].pairs) = objects_per_file
            /\ Len(disk[output_file(N - 1)].pairs) = last
            /\ last >= 1
            /\ last <= objects_per_file

C6_Witness ==
    /\ Completed
    /\ T = 2
    /\ objects_per_file = 2
    /\ ShardsOnDisk = {0}

\* C7: once a run is past the write of doc.json, doc.json holds exactly one
\* entry, its key is an input key and its value is that key's input value.
C7_DocShape ==
    /\ pc \in {"loop", "done"} => doc_file \in SeqSet(log)
    /\ doc_file \in SeqSet(log) =>
          /\ disk[doc_file].st = "ok"
          /\ Len(disk[doc_file].pairs) = 1
          /\ disk[doc_file].pairs[1][1] \in SeqSet(InputKeys)
          /\ disk[doc_file].pairs[1][2] = DictGet(R, disk[doc_file].pairs[1][1])

C7_Witness ==
    /\ pc = "done"
    /\ T >= 2
    /\ Len(input_file) > T
    /\ disk[doc_file].pairs[1][1] # InputKeys[1]

\* C8: when a run completes after an earlier completed run on the same input
\* and chunk size, every shard file and the index file are what that earlier
\* run left, and so is the set of shard files.
C8_Idempotent ==
    (pc = "done" /\ prev.valid) =>
        /\ \A i \in ShardIds : disk[output_file(i)] = prev.disk[output_file(i)]
        /\ disk[index_file] = prev.disk[index_file]

C8_Witness ==
    /\ pc = "done"
    /\ prev.valid
    /\ Cardinality(ShardsOnDisk) >= 2
    /\ disk[doc_file] # prev.disk[doc_file]

\* C9: the writes of a run are a leading part of doc.json, geometry_0.json,
\* ..., geometry_{N-1}.json, geometry_index.json, and none precedes the load.
WriteOrder ==
    LET N == IF objects_per_file > 0 THEN LeastCover(T, objects_per_file) ELSE 0
    IN  <<doc_file>> \o [i \in 1..N |-> output_file(i - 1)] \o <<index_file>>

C9_WriteOrder ==
    /\ Len(log) <= Len(WriteOrder)
    /\ log = SubSeq(WriteOrder, 1, Len(log))
    /\ pc = "start" => log = <<>>
    /\ log # <<>> => data = R
    /\ pc = "done" => log = WriteOrder

C9_Witness ==
    /\ pc = "done"
    /\ Len(log) >= 4

\* C10: when the write of shard k has failed the run is over: doc.json and
\* shards 0..k-1 are on disk as written, nothing but these was written, and
\* the run takes no further step (only a new invocation follows).
ShardFailed(k) == pc = "error" /\ failed = output_file(k)

C10_AtFailure ==
    \A k \in ShardIds :
        ShardFailed(k) =>
            /\ log = <<doc_file>> \o [i \in 1..k |-> output_file(i - 1)]
            /\ disk[doc_file] = json_dump(example_data, "indent")
            /\ Len(example_data) = 1
            /\ \A i \in 0..(k - 1) :
                  /\ disk[output_file(i)].st = "ok"
                  /\ disk[output_file(i)].pairs
                        = [j \in 1..objects_per_file |-> R[i * objects_per_file + j]]
            /\ index_file \notin SeqSet(log)

C10_NoRetry ==
    (\E k \in ShardIds : ShardFailed(k)) => (pc' = "start" /\ disk' = disk /\ log' = <<>>)

C10_ShardFailure == []C10_AtFailure /\ [][C10_NoRetry]_vars

C10_Witness ==
    /\ ShardFailed(2)
    /\ disk[output_file(2)].st = "partial"
    /\ disk[output_file(1)].st = "ok"
====
